---- MODULE Spec2Model ----
(***************************************************************************)
(* AutoLeetcode: the screenshot watcher (ScreenshotMonitor), the pipeline  *)
(* controller (ScreenshotProcessor.process_screenshot), the repair loop    *)
(* (CodeFixer.test_and_fix), the sandboxed runner (CodeExecutor.execute)   *)
(* with its static validator (CodeExecutor.validate_code), the response    *)
(* parser (CodeParser) and the LLM client adapters' fix_code.              *)
(***************************************************************************)
EXTENDS Integers, Sequences, FiniteSets, TLC

(***************************************************************************)
(* Bounds of the model.                                                    *)
(***************************************************************************)
MaxTime == 9        \* the clock runs from StartTime to MaxTime (ticks)
MaxQueue == 2       \* events waiting in the observer's queue
MaxEvents == 3      \* file-creation events emitted in one run
MaxSize == 1        \* sizes os.path.getsize may report: 0..MaxSize
LoopEvents == 1     \* events of a run that explores the repair loop in full
MaxTitleLen == 3    \* characters of a title line

(***************************************************************************)
(* Program constants.                                                      *)
(***************************************************************************)
MAX_FIX_ATTEMPTS == 3
cooldown_period == 2          \* seconds
max_wait == 5                 \* seconds
TicksPerSecond == 2           \* check_interval = 0.5 s is one tick

CooldownTicks == cooldown_period * TicksPerSecond
MaxPolls == max_wait * TicksPerSecond       \* int(max_wait / check_interval)
StartTime == CooldownTicks    \* time.time() is far beyond cooldown_period

FORBIDDEN_MODULES ==
  {"os", "sys", "subprocess", "shutil", "pickle", "socket", "urllib",
   "requests", "http", "ftplib"}
FORBIDDEN_FUNCTIONS == {"eval", "exec", "compile", "__import__"}
FORBIDDEN_FILE_ATTRS == {"open", "remove", "rmdir", "mkdir"}
allowed_file_extensions == {".png", ".jpg", ".jpeg"}

Handlers == {1, 2}            \* threads that may run on_created

(***************************************************************************)
(* Script texts and their syntax trees.  A text either parses to a module  *)
(* (its statement list is `body`) or does not parse at all.                *)
(***************************************************************************)
NoFunc == [kind |-> "None", name |-> ""]
Node(type, names, module, func, body) ==
  [type |-> type, names |-> names, module |-> module, func |-> func, body |-> body]
Import(names) == Node("Import", names, <<>>, NoFunc, <<>>)
ImportFrom(module) == Node("ImportFrom", <<>>, module, NoFunc, <<>>)
CallName(id, args) == Node("Call", <<>>, <<>>, [kind |-> "Name", name |-> id], args)
CallAttr(attr, args) == Node("Call", <<>>, <<>>, [kind |-> "Attribute", name |-> attr], args)
FunctionDef(body) == Node("FunctionDef", <<>>, <<>>, NoFunc, body)
Module(body) == Node("Module", <<>>, <<>>, NoFunc, body)
Text(body) == [parses |-> TRUE, body |-> body]

\* print("ok")
S_ok == Text(<<CallName("print", <<>>)>>)
\* import json, os ; print(os.getcwd())
S_multi == Text(<<Import(<< <<"json">>, <<"os">> >>), CallName("print", <<CallAttr("getcwd", <<>>)>>)>>)
\* def f(): from subprocess import run
S_nested == Text(<<FunctionDef(<<ImportFrom(<<"subprocess">>)>>)>>)
\* a text that is not Python
S_bad == [parses |-> FALSE, body |-> <<>>]

Scripts == {S_ok, S_multi, S_nested, S_bad}

\* ast.parse
ast_parse(code) ==
  IF code.parses THEN [ok |-> TRUE, tree |-> Module(code.body)]
                 ELSE [ok |-> FALSE, tree |-> Module(<<>>)]

\* ast.walk: breadth-first over the node and all its descendants
RECURSIVE WalkQueue(_)
WalkQueue(todo) ==
  IF todo = <<>> THEN <<>>
  ELSE <<Head(todo)>> \o WalkQueue(Tail(todo) \o Head(todo).body)
ast_walk(tree) == WalkQueue(<<tree>>)

\* the module name validate_code looks at for an import node
module_name(node) ==
  IF node.type = "Import" THEN Head(Head(node.names))
  ELSE IF node.module # <<>> THEN Head(node.module)
  ELSE "None"

NodeIsUnsafe(node) ==
  \/ node.type \in {"Import", "ImportFrom"} /\ module_name(node) \in FORBIDDEN_MODULES
  \/ node.type = "Call" /\ node.func.kind = "Name" /\ node.func.name \in FORBIDDEN_FUNCTIONS
  \/ node.type = "Call" /\ node.func.kind = "Attribute" /\ node.func.name \in FORBIDDEN_FILE_ATTRS

\* CodeExecutor.validate_code: "accepted", or the exception it raises
validate_code(code) ==
  LET parsed == ast_parse(code) IN
  IF ~parsed.ok THEN "CodeValidationError"
  ELSE LET nodes == ast_walk(parsed.tree) IN
       IF \E i \in DOMAIN nodes : NodeIsUnsafe(nodes[i])
       THEN "UnsafeCodeError" ELSE "accepted"

(***************************************************************************)
(* Titles and output paths.  A title is a sequence of characters.          *)
(***************************************************************************)
WordChars == {"A", "B", "s", "u", "n", "t", "i", "l", "e", "d", "U", "_"}
SpaceChars == {" "}
KeptChars == WordChars \cup SpaceChars \cup {"-"}

RECURSIVE KeepOnly(_)
KeepOnly(s) ==
  IF s = <<>> THEN <<>>
  ELSE IF Head(s) \in KeptChars THEN <<Head(s)>> \o KeepOnly(Tail(s))
  ELSE KeepOnly(Tail(s))

RECURSIVE LStrip(_)
LStrip(s) == IF s # <<>> /\ Head(s) \in SpaceChars THEN LStrip(Tail(s)) ELSE s
RECURSIVE RStrip(_)
RStrip(s) ==
  IF s # <<>> /\ s[Len(s)] \in SpaceChars THEN RStrip(SubSeq(s, 1, Len(s) - 1)) ELSE s
Strip(s) == RStrip(LStrip(s))

RECURSIVE CollapseSpaces(_)
CollapseSpaces(s) ==
  IF s = <<>> THEN <<>>
  ELSE IF Head(s) \in SpaceChars THEN <<"_">> \o CollapseSpaces(LStrip(s))
  ELSE <<Head(s)>> \o CollapseSpaces(Tail(s))

Untitled == <<"U", "n", "t", "i", "t", "l", "e", "d">>
untitled == <<"u", "n", "t", "i", "t", "l", "e", "d">>

\* a substitution that removes the first disallowed character only
RECURSIVE KeepOnly_First(_)
KeepOnly_First(s) ==
  IF s = <<>> THEN <<>>
  ELSE IF Head(s) \in KeptChars THEN <<Head(s)>> \o KeepOnly_First(Tail(s))
  ELSE Tail(s)
sanitize_filename_SubOnce(title) ==
  LET cleaned == CollapseSpaces(Strip(KeepOnly_First(title))) IN
  IF cleaned = <<>> THEN untitled ELSE cleaned

\* PathUtils.sanitize_filename
sanitize_filename(title) ==
  LET cleaned == CollapseSpaces(Strip(KeepOnly(title))) IN
  IF cleaned = <<>> THEN untitled ELSE cleaned

\* A path is a sequence of components from the root; a component is a
\* sequence of characters.  The resolved output directory:
output_dir == << <<"o", "u", "t">> >>

\* the components of a path written with "/" separators
RECURSIVE SplitPath(_, _)
SplitPath(s, component) ==
  IF s = <<>> THEN (IF component = <<>> THEN <<>> ELSE <<component>>)
  ELSE IF Head(s) = "/"
  THEN (IF component = <<>> THEN <<>> ELSE <<component>>) \o SplitPath(Tail(s), <<>>)
  ELSE SplitPath(Tail(s), Append(component, Head(s)))

\* Path.resolve: "." is dropped, ".." drops the component before it
RECURSIVE Resolve(_, _)
Resolve(components, resolved) ==
  IF components = <<>> THEN resolved
  ELSE IF Head(components) = <<".">> THEN Resolve(Tail(components), resolved)
  ELSE IF Head(components) = <<".", ".">>
  THEN Resolve(Tail(components),
               IF resolved = <<>> THEN <<>> ELSE SubSeq(resolved, 1, Len(resolved) - 1))
  ELSE Resolve(Tail(components), Append(resolved, Head(components)))

\* output_dir / code_filename: an absolute right operand replaces the left one
JoinPath(dir, filename) ==
  IF filename # <<>> /\ Head(filename) = "/" THEN SplitPath(filename, <<>>)
  ELSE dir \o SplitPath(filename, <<>>)

\* Path.relative_to succeeds: `path` lies under `dir`
IsRelativeTo(path, dir) ==
  Len(path) >= Len(dir) /\ SubSeq(path, 1, Len(dir)) = dir

\* the record kept for a path: its parent directory and its file name
PathRecord(path, raises) ==
  IF path = <<>> THEN [dir |-> <<>>, name |-> <<>>, raises |-> raises]
  ELSE [dir |-> SubSeq(path, 1, Len(path) - 1), name |-> path[Len(path)], raises |-> raises]

\* a get_code_path that joins the title as it is and checks nothing
get_code_path_RawTitle(title, screenshot_path) ==
  PathRecord(Resolve(JoinPath(output_dir, title \o <<".", "p", "y">>), <<>>), FALSE)

\* PathUtils.get_code_path: the resolved path, and whether FileHandlingError
\* is raised instead of returning it
get_code_path(title, screenshot_path) ==
  LET sanitized_title == sanitize_filename(title)
      stem == IF sanitized_title = <<>> THEN screenshot_path.stem ELSE sanitized_title
      code_filename == stem \o <<".", "p", "y">>
      code_path == Resolve(JoinPath(output_dir, code_filename), <<>>)
  IN PathRecord(code_path, ~IsRelativeTo(code_path, output_dir))

(***************************************************************************)
(* LLM responses and CodeParser.extract_code_from_markdown.                *)
(***************************************************************************)
NoTitle == <<>>
Titles == {<<"A", " ", "B">>}
Response(kind, title, code) == [kind |-> kind, title |-> title, code |-> code]
NoneResponse == Response("None", NoTitle, S_bad)
\* a response with a fenced python block, with or without a title line
GenerationResponses(texts, titles) ==
  {Response("python_block", t, c) : t \in titles, c \in texts}
\* replies to a repair request: fenced or bare code
RepairResponses(texts) ==
  {Response(k, NoTitle, c) : k \in {"python_block", "bare"}, c \in texts}
  \cup {Response("python_block", t, c) : t \in Titles, c \in texts \cap {S_ok}}

extract_code_from_markdown(text) ==
  [raises |-> text.kind = "None",
   title |-> IF text.title # NoTitle THEN Strip(text.title) ELSE Untitled,
   code |-> text.code]

(***************************************************************************)
(* State.                                                                  *)
(***************************************************************************)
VARIABLES
  now,                  \* time.time(), in ticks of check_interval
  queue,                \* events emitted by the observer, not yet dispatched
  budget,               \* file-creation events still to come in this run
  serial,               \* TRUE: one dispatch thread calls on_created (watchdog Observer)
  processing,           \* ScreenshotMonitor.processing
  last_processed_time,  \* ScreenshotMonitor.last_processed_time
  disk,                 \* the output directory: path -> script text
  provider,             \* config.llm.provider: the client adapter in use
  llm_texts,            \* the script texts the language model may answer with
  llm_titles,           \* the title lines it may put in a generation response
  solved,               \* paths of the script files of artifacts that reached Succeeded
  hs                    \* per on_created invocation: position and local variables

vars == <<now, queue, budget, serial, provider, llm_texts, llm_titles, solved, processing,
          last_processed_time, disk, hs>>

NoPath == [dir |-> <<>>, name |-> <<>>, raises |-> FALSE]
NoEvent == [is_directory |-> FALSE, src_path |-> [stem |-> <<>>, suffix |-> ""], during |-> FALSE]
Unset == S_bad
\* no child process has been waited for
NoOutcome ==
  [timeout |-> FALSE, returncode |-> -1, stderr |-> "", stdout |-> "", decodes |-> TRUE]

\* Path.write_text
WriteText(d, path, text) ==
  [q \in DOMAIN d \cup {path} |-> IF q = path THEN text ELSE d[q]]

\* an on_created invocation that is not running
IdleHandler ==
  [pc |-> "idle", event |-> NoEvent, current_time |-> 0,
   polls |-> 0, last_size |-> -1, stable_count |-> 0,
   code_path |-> NoPath, attempt |-> 0, current_code |-> Unset,
   success |-> FALSE, error |-> "",
   validation |-> "none", child |-> "none", outcome |-> NoOutcome,
   executions |-> 0, repairs |-> 0, last_tested |-> Unset,
   repair_raised |-> FALSE, provider_failed |-> FALSE,
   unsafe_raised |-> FALSE, returned |-> FALSE, notified |-> FALSE,
   persisted |-> FALSE, raised |-> "", escaped |-> FALSE,
   title |-> NoTitle, generated |-> FALSE, reply_title |-> NoTitle]

\* file-creation events of the watched directory
EventKinds ==
  {[is_directory |-> TRUE, src_path |-> [stem |-> <<"d">>, suffix |-> ""]],
   [is_directory |-> FALSE, src_path |-> [stem |-> <<"s">>, suffix |-> ".png"]],
   [is_directory |-> FALSE, src_path |-> [stem |-> <<"n">>, suffix |-> ".txt"]]}

Providers == {"gemini", "openai"}

\* the state after ScreenshotMonitor.__init__ and start
InitMonitor ==
  /\ now = StartTime
  /\ queue = <<>>
  /\ processing = FALSE
  /\ last_processed_time = 0
  /\ hs = [h \in Handlers |-> IdleHandler]

\* one artifact, any client adapter, every script text; the output directory
\* is empty or holds a file of an earlier run
Init ==
  /\ InitMonitor
  /\ serial = TRUE
  /\ provider \in Providers
  /\ llm_texts = Scripts
  /\ llm_titles = Titles \cup {NoTitle}
  /\ solved = {}
  /\ budget = LoopEvents
  /\ disk \in {<<>>, WriteText(<<>>, get_code_path(Untitled, NoEvent.src_path), S_ok)}

\* a stream of events, one client adapter, two script texts
InitWatch ==
  /\ InitMonitor
  /\ serial = TRUE
  /\ provider = "gemini"
  /\ llm_texts = {S_ok, S_nested}
  /\ llm_titles = Titles \cup {NoTitle}
  /\ solved = {}
  /\ budget = MaxEvents
  /\ disk = <<>>

\* the characters a title line may hold, and the title lines up to MaxTitleLen
TitleChars == {"A", " ", "-", "/", "."}
TitlePool == UNION {[1..n -> TitleChars] : n \in 0..MaxTitleLen}

\* a single artifact, one script text, every title line: the path functions
\* (they read nothing but the title and the screenshot's name)
InitPaths ==
  /\ InitMonitor
  /\ serial = TRUE
  /\ provider = "gemini"
  /\ llm_texts = {S_ok}
  /\ llm_titles = TitlePool
  /\ solved = {}
  /\ budget = 1
  /\ disk = <<>>

\* two events whose handlers are not serialized by a dispatch thread
InitRace ==
  /\ InitMonitor
  /\ serial = FALSE
  /\ provider = "gemini"
  /\ llm_texts = {S_ok}
  /\ llm_titles = {NoTitle}
  /\ solved = {}
  /\ budget = MaxQueue
  /\ disk = <<>>

(***************************************************************************)
(* Environment: the clock and the file system of the watched directory.    *)
(***************************************************************************)
\* Nothing between Accept and Finally reads the clock or the queue, and
\* `processing` is TRUE throughout, so the steps the environment takes during
\* a job are taken when the job is at its last step (pc = "finally").
EnvironmentMayStep ==
  \A h \in Handlers : hs[h].pc \in {"idle", "poll", "accept", "finally"}

Tick ==
  /\ EnvironmentMayStep
  /\ now < MaxTime
  /\ now' = now + 1
  /\ UNCHANGED <<queue, budget, serial, provider, llm_texts, llm_titles, solved, processing,
                 last_processed_time, disk, hs>>

\* the observer's emitter thread queues a file-creation event
FileCreated ==
  /\ EnvironmentMayStep
  /\ Len(queue) < MaxQueue
  /\ budget > 0
  /\ \E k \in EventKinds :
       queue' = Append(queue, [is_directory |-> k.is_directory, src_path |-> k.src_path,
                               during |-> processing])
  /\ budget' = budget - 1
  /\ UNCHANGED <<now, serial, provider, llm_texts, llm_titles, solved, processing,
                 last_processed_time, disk, hs>>

(***************************************************************************)
(* ScreenshotMonitor.on_created                                            *)
(***************************************************************************)
\* a dispatcher that starts a handler while another one is still running
Dispatchable_Unserialized(h) ==
  /\ hs[h].pc = "idle"
  /\ \A g \in Handlers : g < h => hs[g].pc # "idle"

\* the observer's dispatch thread calls the handler for one event at a time
Dispatchable(h) ==
  /\ hs[h].pc = "idle"
  /\ \A g \in Handlers : g < h => hs[g].pc # "idle"
  /\ serial => \A g \in Handlers : hs[g].pc = "idle"

\* str.lower on a file suffix
Lower(suffix) ==
  CASE suffix = ".PNG" -> ".png"
    [] suffix = ".JPG" -> ".jpg"
    [] suffix = ".JPEG" -> ".jpeg"
    [] OTHER -> suffix

HasAllowedExtension(src_path) == Lower(src_path.suffix) \in allowed_file_extensions

\* a gate that only looks at the flag
GateRejects_NoCooldown(current_time) == processing

\* the debounce gate
GateRejects(current_time) ==
  (current_time - last_processed_time < CooldownTicks) \/ processing

\* a handler that records the time of every image event, accepted or not
OnCreated_TouchesTime(h) ==
  /\ queue # <<>>
  /\ Dispatchable(h)
  /\ queue' = Tail(queue)
  /\ LET event == Head(queue) IN
       IF event.is_directory \/ ~HasAllowedExtension(event.src_path)
       THEN hs' = hs /\ last_processed_time' = last_processed_time
       ELSE IF GateRejects(now)
       THEN hs' = hs /\ last_processed_time' = now
       ELSE /\ hs' = [hs EXCEPT ![h] = [IdleHandler EXCEPT !.pc = "poll", !.event = event,
                                                           !.current_time = now]]
            /\ last_processed_time' = last_processed_time
  /\ UNCHANGED <<now, budget, serial, provider, llm_texts, llm_titles, solved, processing, disk>>

\* on_created up to the gate: returns at once or starts the stability wait
OnCreated(h) ==
  /\ queue # <<>>
  /\ Dispatchable(h)
  /\ queue' = Tail(queue)
  /\ LET event == Head(queue) IN
       IF event.is_directory \/ ~HasAllowedExtension(event.src_path) \/ GateRejects(now)
       THEN hs' = hs
       ELSE hs' = [hs EXCEPT ![h] = [IdleHandler EXCEPT !.pc = "poll", !.event = event,
                                                        !.current_time = now]]
  /\ UNCHANGED <<now, budget, serial, provider, llm_texts, llm_titles, solved, processing,
                 last_processed_time, disk>>

\* time.sleep(check_interval): one tick passes; the clock stops at MaxTime
Sleep(t) == IF t < MaxTime THEN t + 1 ELSE t

\* a wait that is content with one unchanged size
Poll_OneUnchanged(h) ==
  /\ hs[h].pc = "poll"
  /\ hs[h].polls < MaxPolls
  /\ \E raises \in BOOLEAN, current_size \in 0..MaxSize :
       LET l == hs[h] IN
       IF raises
       THEN /\ now' = Sleep(now)
            /\ hs' = [hs EXCEPT ![h].polls = l.polls + 1]
       ELSE IF current_size = l.last_size /\ current_size > 0
       THEN IF l.stable_count + 1 >= 1
            THEN /\ now' = now
                 /\ hs' = [hs EXCEPT ![h].stable_count = l.stable_count + 1, ![h].pc = "accept"]
            ELSE /\ now' = Sleep(now)
                 /\ hs' = [hs EXCEPT ![h].stable_count = l.stable_count + 1,
                                     ![h].polls = l.polls + 1]
       ELSE /\ now' = Sleep(now)
            /\ hs' = [hs EXCEPT ![h].stable_count = 0, ![h].last_size = current_size,
                                ![h].polls = l.polls + 1]
  /\ UNCHANGED <<queue, budget, serial, provider, llm_texts, llm_titles, solved, processing,
                 last_processed_time, disk>>

\* one iteration of the stability wait
Poll(h) ==
  /\ hs[h].pc = "poll"
  /\ hs[h].polls < MaxPolls
  /\ \E raises \in BOOLEAN, current_size \in 0..MaxSize :
       LET l == hs[h] IN
       IF raises
       THEN /\ now' = Sleep(now)
            /\ hs' = [hs EXCEPT ![h].polls = l.polls + 1]
       ELSE IF current_size = l.last_size /\ current_size > 0
       THEN IF l.stable_count + 1 >= 2
            THEN /\ now' = now
                 /\ hs' = [hs EXCEPT ![h].stable_count = l.stable_count + 1, ![h].pc = "accept"]
            ELSE /\ now' = Sleep(now)
                 /\ hs' = [hs EXCEPT ![h].stable_count = l.stable_count + 1,
                                     ![h].polls = l.polls + 1]
       ELSE /\ now' = Sleep(now)
            /\ hs' = [hs EXCEPT ![h].stable_count = 0, ![h].last_size = current_size,
                                ![h].polls = l.polls + 1]
  /\ UNCHANGED <<queue, budget, serial, provider, llm_texts, llm_titles, solved, processing,
                 last_processed_time, disk>>

\* a wait that drops the event when the size never settled
PollExhausted_GiveUp(h) ==
  /\ hs[h].pc = "poll"
  /\ hs[h].polls = MaxPolls
  /\ hs' = [hs EXCEPT ![h] = IdleHandler]
  /\ UNCHANGED <<now, queue, budget, serial, provider, llm_texts, llm_titles, solved, processing,
                 last_processed_time, disk>>

\* the wait gave up after MaxPolls iterations
PollExhausted(h) ==
  /\ hs[h].pc = "poll"
  /\ hs[h].polls = MaxPolls
  /\ hs' = [hs EXCEPT ![h].pc = "accept"]
  /\ UNCHANGED <<now, queue, budget, serial, provider, llm_texts, llm_titles, solved, processing,
                 last_processed_time, disk>>

\* the event is accepted: set the flag, record the time, enter the Controller
\* (current_time and the locals of the stability wait are not read again)
Accept(h) ==
  /\ hs[h].pc = "accept"
  /\ processing' = TRUE
  /\ last_processed_time' = hs[h].current_time
  /\ hs' = [hs EXCEPT ![h] = [IdleHandler EXCEPT !.pc = "validate_screenshot",
                                               !.event = hs[h].event]]
  /\ UNCHANGED <<now, queue, budget, serial, provider, llm_texts, llm_titles, solved, disk>>

\* a handler that returns without clearing the flag
Finally_NoClear(h) ==
  /\ hs[h].pc = "finally"
  /\ hs' = [hs EXCEPT ![h] = IdleHandler]
  /\ UNCHANGED <<now, queue, budget, serial, provider, llm_texts, llm_titles, solved, processing,
                 last_processed_time, disk>>

\* finally: clear the flag; on_created returns
Finally(h) ==
  /\ hs[h].pc = "finally"
  /\ processing' = FALSE
  /\ hs' = [hs EXCEPT ![h] = IdleHandler]
  /\ UNCHANGED <<now, queue, budget, serial, provider, llm_texts, llm_titles, solved,
                 last_processed_time, disk>>

(***************************************************************************)
(* ScreenshotProcessor.process_screenshot                                  *)
(***************************************************************************)
\* the frame shared by every step of the Controller that leaves the disk alone
ControllerFrame == UNCHANGED <<now, queue, budget, serial, provider, llm_texts, llm_titles,
                               processing, last_processed_time>>

\* the exception classes of the program and the built-in ones it meets
AutoLeetcodeErrors ==
  {"AutoLeetcodeError", "ConfigurationError", "APIError", "CodeExecutionError",
   "CodeValidationError", "FileHandlingError", "UnsafeCodeError"}
Exceptions == AutoLeetcodeErrors \cup {"Exception", "OSError", "TypeError"}

\* a Controller without the clause `except Exception`
Caught_OnlyAutoLeetcodeError(exc) == exc \in AutoLeetcodeErrors

\* the except clauses of process_screenshot
Caught(exc) == exc \in AutoLeetcodeErrors \/ exc \in Exceptions

\* an exception raised inside process_screenshot: logged by an except clause,
\* or propagated to on_created; either way on_created's finally runs next
Raise(l, exc) == [l EXCEPT !.raised = exc, !.escaped = ~Caught(exc), !.pc = "finally"]

\* PathUtils.validate_screenshot: "ok" or the exception raised
validate_screenshot(src_path, exists, readable, too_big) ==
  IF Lower(src_path.suffix) \notin allowed_file_extensions THEN "FileHandlingError"
  ELSE IF ~exists THEN "FileHandlingError"
  ELSE IF ~readable THEN "FileHandlingError"
  ELSE IF too_big THEN "FileHandlingError"
  ELSE "ok"

\* a Controller that asks for the code before it looks at the screenshot
ValidateScreenshot_GenerateFirst(h) ==
  /\ hs[h].pc = "validate_screenshot"
  /\ \E exists \in BOOLEAN, readable \in BOOLEAN, too_big \in BOOLEAN :
       LET v == validate_screenshot(hs[h].event.src_path, exists, readable, too_big)
           l == [hs[h] EXCEPT !.generated = TRUE]
       IN hs' = [hs EXCEPT ![h] = IF v = "ok" THEN [l EXCEPT !.pc = "generate"] ELSE Raise(l, v)]
  /\ UNCHANGED <<disk, solved>>
  /\ ControllerFrame

ValidateScreenshot(h) ==
  /\ hs[h].pc = "validate_screenshot"
  /\ \E exists \in BOOLEAN, readable \in BOOLEAN, too_big \in BOOLEAN :
       LET v == validate_screenshot(hs[h].event.src_path, exists, readable, too_big) IN
       hs' = [hs EXCEPT ![h] = IF v = "ok" THEN [@ EXCEPT !.pc = "generate"] ELSE Raise(@, v)]
  /\ UNCHANGED <<disk, solved>>
  /\ ControllerFrame

\* generate_code_from_screenshot, extract_code_from_markdown, get_code_path, mkdir
Generate(h) ==
  /\ hs[h].pc = "generate"
  /\ \/ \E response \in GenerationResponses(llm_texts, llm_titles), mkdir_ok \in BOOLEAN :
          LET parsed == extract_code_from_markdown(response)
              code_path == get_code_path(parsed.title, hs[h].event.src_path)
              l == [hs[h] EXCEPT !.generated = TRUE]
          IN hs' = [hs EXCEPT ![h] =
                      IF code_path.raises THEN Raise(l, "FileHandlingError")
                      ELSE IF ~mkdir_ok THEN Raise(l, "OSError")
                      ELSE [l EXCEPT !.pc = "loop", !.title = parsed.title,
                                     !.code_path = code_path,
                                     !.current_code = parsed.code]]
     \/ hs' = [hs EXCEPT ![h] = Raise([@ EXCEPT !.generated = TRUE], "APIError")]
  /\ UNCHANGED <<disk, solved>>
  /\ ControllerFrame

(***************************************************************************)
(* CodeFixer.test_and_fix                                                  *)
(***************************************************************************)
\* a loop that runs one time too many
RangeHasNext_OffByOne(attempt) == attempt <= MAX_FIX_ATTEMPTS

\* for attempt in range(self.max_attempts)
RangeHasNext(attempt) == attempt < MAX_FIX_ATTEMPTS

\* top of the loop body: write the current code to the file
\* (the title is not read again once the path is known, nor is the title of
\* a repair reply, which test_and_fix binds to `_`)
LoopWrite(h) ==
  /\ hs[h].pc = "loop"
  /\ RangeHasNext(hs[h].attempt)
  /\ \E write_ok \in BOOLEAN :
       IF write_ok
       THEN /\ disk' = WriteText(disk, hs[h].code_path, hs[h].current_code)
            /\ hs' = [hs EXCEPT ![h].pc = "execute", ![h].title = NoTitle,
                                ![h].reply_title = NoTitle]
       ELSE /\ disk' = disk
            /\ hs' = [hs EXCEPT ![h] = Raise(@, "OSError")]
  /\ UNCHANGED solved
  /\ ControllerFrame

\* the range is used up: return False, current_code
LoopEnd(h) ==
  /\ hs[h].pc = "loop"
  /\ ~RangeHasNext(hs[h].attempt)
  /\ hs' = [hs EXCEPT ![h].pc = "persist", ![h].success = FALSE, ![h].returned = TRUE]
  /\ UNCHANGED <<disk, solved>>
  /\ ControllerFrame

(***************************************************************************)
(* CodeExecutor.execute                                                    *)
(***************************************************************************)
\* an execute that goes on to run a text whose validation failed
AfterValidation_SpawnAnyway(l, v) ==
  IF v = "UnsafeCodeError"
  THEN Raise([l EXCEPT !.validation = v, !.unsafe_raised = TRUE], v)
  ELSE [l EXCEPT !.validation = v, !.pc = "spawn"]

\* an execute that lets every validation error propagate
AfterValidation_RaiseAll(l, v) ==
  IF v = "accepted" THEN [l EXCEPT !.validation = v, !.pc = "spawn"]
  ELSE Raise([l EXCEPT !.validation = v, !.unsafe_raised = (v = "UnsafeCodeError")], v)

\* an execute that returns UnsafeCodeError as a failure like any other
AfterValidation_UnsafeReturned(l, v) ==
  IF v = "accepted" THEN [l EXCEPT !.validation = v, !.pc = "spawn"]
  ELSE [l EXCEPT !.validation = v, !.unsafe_raised = (v = "UnsafeCodeError"),
                 !.success = FALSE, !.error = "validation_error", !.pc = "check"]

\* what execute does with the outcome of open/read/validate_code
AfterValidation(l, v) ==
  IF v = "accepted" THEN [l EXCEPT !.validation = v, !.pc = "spawn"]
  ELSE IF v = "UnsafeCodeError"
  THEN Raise([l EXCEPT !.validation = v, !.unsafe_raised = TRUE], v)
  ELSE [l EXCEPT !.validation = v, !.success = FALSE, !.error = "validation_error",
                 !.pc = "check"]

\* open, read and validate the file
ExecValidate(h) ==
  /\ hs[h].pc = "execute"
  /\ \E readable \in BOOLEAN :
       LET l == [hs[h] EXCEPT !.executions = @ + 1, !.last_tested = disk[hs[h].code_path],
                              !.child = "none"]
           v == IF readable THEN validate_code(disk[hs[h].code_path]) ELSE "OSError"
       IN hs' = [hs EXCEPT ![h] = AfterValidation(l, v)]
  /\ UNCHANGED <<disk, solved>>
  /\ ControllerFrame

\* subprocess.run starts the interpreter
ExecSpawn(h) ==
  /\ hs[h].pc = "spawn"
  /\ \E o \in {"spawned", "FileNotFoundError", "Exception"} :
       hs' = [hs EXCEPT ![h] =
                IF o = "spawned"
                THEN [@ EXCEPT !.child = "running", !.pc = "wait"]
                ELSE IF o = "FileNotFoundError"
                THEN [@ EXCEPT !.success = FALSE, !.error = "no_python", !.pc = "check"]
                ELSE [@ EXCEPT !.success = FALSE, !.error = "exec_error", !.pc = "check"]]
  /\ UNCHANGED <<disk, solved>>
  /\ ControllerFrame

\* what a child process can do: run into the timeout, or exit with a code
\* after writing to its two pipes bytes that are, or are not, valid UTF-8
ChildOutcomes ==
  {o \in [timeout : {FALSE}, returncode : {0, 1}, stderr : {"", "stderr"},
          stdout : {"", "stdout"}, decodes : BOOLEAN] :
     (o.stderr = "" /\ o.stdout = "") => o.decodes}
  \cup [timeout : {TRUE}, returncode : {-1}, stderr : {""}, stdout : {""}, decodes : {TRUE}]

\* a runner that reports the timeout and leaves the child running
ExecResult_NoKill(l, o) ==
  IF o.timeout
  THEN [l EXCEPT !.outcome = o, !.child = "running", !.success = FALSE, !.error = "timeout",
                 !.pc = "check"]
  ELSE IF ~o.decodes
  THEN [l EXCEPT !.outcome = o, !.child = "exited", !.success = FALSE,
                 !.error = "exec_error", !.pc = "check"]
  ELSE IF o.returncode # 0
  THEN [l EXCEPT !.outcome = o, !.child = "exited", !.success = FALSE,
                 !.error = IF o.stderr # "" THEN o.stderr ELSE o.stdout, !.pc = "check"]
  ELSE [l EXCEPT !.outcome = o, !.child = "exited", !.success = TRUE, !.error = "",
                 !.pc = "check"]

\* the result execute returns for a child's outcome.  subprocess.run kills
\* and reaps the child when the timeout expires; with text=True and
\* encoding="utf-8" it raises UnicodeDecodeError for output that is not
\* UTF-8, which execute catches as Exception.
ExecResult(l, o) ==
  IF o.timeout
  THEN [l EXCEPT !.outcome = o, !.child = "killed", !.success = FALSE, !.error = "timeout",
                 !.pc = "check"]
  ELSE IF ~o.decodes
  THEN [l EXCEPT !.outcome = o, !.child = "exited", !.success = FALSE,
                 !.error = "exec_error", !.pc = "check"]
  ELSE IF o.returncode # 0
  THEN [l EXCEPT !.outcome = o, !.child = "exited", !.success = FALSE,
                 !.error = IF o.stderr # "" THEN o.stderr ELSE o.stdout, !.pc = "check"]
  ELSE [l EXCEPT !.outcome = o, !.child = "exited", !.success = TRUE, !.error = "",
                 !.pc = "check"]

\* subprocess.run waits for the child or for the timeout
ExecWait(h) ==
  /\ hs[h].pc = "wait"
  /\ \E o \in ChildOutcomes : hs' = [hs EXCEPT ![h] = ExecResult(hs[h], o)]
  /\ UNCHANGED <<disk, solved>>
  /\ ControllerFrame

(***************************************************************************)
(* test_and_fix after the runner has returned                              *)
(***************************************************************************)
\* a loop that asks for a repair after the last attempt too
ShouldRepair_Always(attempt) == attempt < MAX_FIX_ATTEMPTS

\* if attempt < self.max_attempts - 1
ShouldRepair(attempt) == attempt < MAX_FIX_ATTEMPTS - 1

\* a loop that does not return at the first success
CheckStep_NoEarlyReturn(l) ==
  LET r == [l EXCEPT !.validation = "none", !.child = "none", !.outcome = NoOutcome] IN
  IF ShouldRepair(l.attempt) THEN [r EXCEPT !.pc = "repair"]
  ELSE [r EXCEPT !.error = "", !.attempt = @ + 1, !.pc = "loop"]

\* lines 60-67: return on success, else repair or go to the next attempt
\* (execute has returned: its locals `validation`, `child` and `outcome` are gone)
CheckStep(l) ==
  LET r == [l EXCEPT !.validation = "none", !.child = "none", !.outcome = NoOutcome] IN
  IF l.success THEN [r EXCEPT !.returned = TRUE, !.pc = "persist"]
  ELSE IF ShouldRepair(l.attempt) THEN [r EXCEPT !.pc = "repair"]
  ELSE [r EXCEPT !.error = "", !.attempt = @ + 1, !.pc = "loop"]

Check(h) ==
  /\ hs[h].pc = "check"
  /\ hs' = [hs EXCEPT ![h] = CheckStep(hs[h])]
  /\ UNCHANGED <<disk, solved>>
  /\ ControllerFrame

\* what the provider's API call can do inside fix_code
ApiOutcomes ==
  {[kind |-> "reply", text |-> r] : r \in RepairResponses(llm_texts)}
  \cup {[kind |-> k, text |-> NoneResponse] : k \in {"error", "empty", "none_content"}}

\* <Client>.fix_code: the text it returns (it catches every provider error)
fix_code(client, broken_code, api) ==
  IF api.kind = "reply" THEN api.text
  ELSE IF api.kind = "none_content" /\ client = "openai" THEN NoneResponse
  ELSE Response("bare", NoTitle, broken_code)

\* an except branch that goes on with the next attempt instead of leaving the loop
RepairStep_Continue(l, fixed_response) ==
  LET parsed == extract_code_from_markdown(fixed_response) IN
  IF parsed.raises
  THEN [l EXCEPT !.repair_raised = TRUE, !.error = "", !.attempt = @ + 1, !.pc = "loop"]
  ELSE [l EXCEPT !.current_code = parsed.code, !.error = "", !.attempt = @ + 1,
                 !.pc = "loop"]

\* a loop that names the file after the title of the repair reply
RepairStep_Rename(l, fixed_response) ==
  LET parsed == extract_code_from_markdown(fixed_response) IN
  IF parsed.raises
  THEN [l EXCEPT !.repair_raised = TRUE, !.error = "", !.success = FALSE,
                 !.returned = TRUE, !.pc = "persist"]
  ELSE [l EXCEPT !.current_code = parsed.code, !.reply_title = parsed.title,
                 !.code_path = get_code_path(parsed.title, l.event.src_path),
                 !.error = "", !.attempt = @ + 1, !.pc = "loop"]

\* lines 69-74: the try block and its except branch
RepairStep(l, fixed_response) ==
  LET parsed == extract_code_from_markdown(fixed_response) IN
  IF parsed.raises
  THEN [l EXCEPT !.repair_raised = TRUE, !.error = "", !.success = FALSE,
                 !.returned = TRUE, !.pc = "persist"]
  ELSE [l EXCEPT !.current_code = parsed.code, !.reply_title = parsed.title,
                 !.error = "", !.attempt = @ + 1, !.pc = "loop"]

Repair(h) ==
  /\ hs[h].pc = "repair"
  /\ \E api \in ApiOutcomes :
       LET l == [hs[h] EXCEPT !.repairs = @ + 1,
                              !.provider_failed = @ \/ api.kind = "error"]
       IN hs' = [hs EXCEPT ![h] = RepairStep(l, fix_code(provider, l.current_code, api))]
  /\ UNCHANGED <<disk, solved>>
  /\ ControllerFrame

(***************************************************************************)
(* process_screenshot after test_and_fix has returned                      *)
(***************************************************************************)
\* a Controller that notifies whatever the loop returned
Persist_NotifyAlways(h) ==
  /\ hs[h].pc = "persist"
  /\ \E write_ok \in BOOLEAN :
       IF write_ok
       THEN /\ disk' = WriteText(disk, hs[h].code_path, hs[h].current_code)
            /\ solved' = IF hs[h].success THEN solved \cup {hs[h].code_path} ELSE solved
            /\ hs' = [hs EXCEPT ![h].persisted = TRUE, ![h].pc = "notify"]
       ELSE /\ disk' = disk
            /\ solved' = solved
            /\ hs' = [hs EXCEPT ![h] = Raise(@, "OSError")]
  /\ ControllerFrame

\* code_path.write_text(final_code)
Persist(h) ==
  /\ hs[h].pc = "persist"
  /\ \E write_ok \in BOOLEAN :
       IF write_ok
       THEN /\ disk' = WriteText(disk, hs[h].code_path, hs[h].current_code)
            /\ solved' = IF hs[h].success THEN solved \cup {hs[h].code_path} ELSE solved
            /\ hs' = [hs EXCEPT ![h].persisted = TRUE,
                                ![h].pc = IF hs[h].success THEN "notify" ELSE "finally"]
       ELSE /\ disk' = disk
            /\ solved' = solved
            /\ hs' = [hs EXCEPT ![h] = Raise(@, "OSError")]
  /\ ControllerFrame

\* self.notifier.notify_success(final_code)
Notify(h) ==
  /\ hs[h].pc = "notify"
  /\ hs' = [hs EXCEPT ![h].notified = TRUE, ![h].pc = "finally"]
  /\ UNCHANGED <<disk, solved>>
  /\ ControllerFrame

(***************************************************************************)
(* The system.                                                             *)
(***************************************************************************)
Next ==
  \/ Tick
  \/ FileCreated
  \/ \E h \in Handlers :
       \/ OnCreated(h)
       \/ Poll(h)
       \/ PollExhausted(h)
       \/ Accept(h)
       \/ ValidateScreenshot(h)
       \/ Generate(h)
       \/ LoopWrite(h)
       \/ LoopEnd(h)
       \/ ExecValidate(h)
       \/ ExecSpawn(h)
       \/ ExecWait(h)
       \/ Check(h)
       \/ Repair(h)
       \/ Persist(h)
       \/ Notify(h)
       \/ Finally(h)

Spec == Init /\ [][Next]_vars
SpecWatch == InitWatch /\ [][Next]_vars
SpecPaths == InitPaths /\ [][Next]_vars
SpecRace == InitRace /\ [][Next]_vars

(***************************************************************************)
(* Properties.                                                             *)
(***************************************************************************)
\* positions inside process_screenshot (test_and_fix and execute included)
ControllerPcs ==
  {"validate_screenshot", "generate", "loop", "execute", "spawn", "wait", "check",
   "repair", "persist", "notify"}
InController(h) == hs[h].pc \in ControllerPcs

\* C1: test_and_fix invokes the runner at most MAX_FIX_ATTEMPTS times for one
\* artifact, and the attempt counter stays within 0..MAX_FIX_ATTEMPTS.
C1_AttemptsBounded ==
  \A h \in Handlers :
    /\ hs[h].executions <= MAX_FIX_ATTEMPTS
    /\ hs[h].attempt \in 0..MAX_FIX_ATTEMPTS
\* the loop has used all its attempts and returned the failure flag
C1_Witness ==
  \E h \in Handlers :
    hs[h].returned /\ ~hs[h].success /\ hs[h].executions = MAX_FIX_ATTEMPTS

\* C2: whenever the runner is invoked the output file holds the text under
\* test, and whenever test_and_fix has returned, the file, the text returned
\* (and persisted by the Controller) and the text tested last are the same.
C2_DiskIsLastTested ==
  \A h \in Handlers :
    /\ hs[h].pc \in {"execute", "spawn", "wait", "check"} =>
         /\ hs[h].code_path \in DOMAIN disk
         /\ disk[hs[h].code_path] = hs[h].current_code
    /\ hs[h].returned =>
         /\ hs[h].code_path \in DOMAIN disk
         /\ disk[hs[h].code_path] = hs[h].last_tested
         /\ hs[h].current_code = hs[h].last_tested
\* the loop returned a repaired text after all attempts failed, and the
\* Controller has persisted it
C2_Witness ==
  \E h \in Handlers :
    /\ hs[h].pc = "finally" /\ hs[h].returned /\ ~hs[h].success
    /\ hs[h].executions = MAX_FIX_ATTEMPTS /\ hs[h].repairs = MAX_FIX_ATTEMPTS - 1
    /\ hs[h].current_code = S_multi

\* C3: at most one artifact is inside the Controller at any time.
C3_OneJobAtATime == Cardinality({h \in Handlers : InController(h)}) <= 1
\* a job is running while further events wait in the observer's queue
C3_Witness == (\E h \in Handlers : InController(h)) /\ Len(queue) = MaxQueue

\* C4: an event emitted while `processing` is set never reaches the Controller.
C4_EventDuringJobNeverProcessed ==
  \A h \in Handlers : InController(h) => ~hs[h].event.during

\* a script names a deny-listed module in an import statement, at any depth
\* of the tree and at any position of the statement's names
ImportsForbiddenModule(code) ==
  /\ code.parses
  /\ LET nodes == ast_walk(Module(code.body)) IN
     \E i \in DOMAIN nodes :
       \/ /\ nodes[i].type = "Import"
          /\ \E j \in DOMAIN nodes[i].names : Head(nodes[i].names[j]) \in FORBIDDEN_MODULES
       \/ /\ nodes[i].type = "ImportFrom"
          /\ nodes[i].module # <<>>
          /\ Head(nodes[i].module) \in FORBIDDEN_MODULES

\* C5: validate_code raises UnsafeCodeError for every script that imports a
\* deny-listed module.
C5_ForbiddenImportRejected ==
  \A h \in Handlers :
    (hs[h].validation \notin {"none", "OSError"} /\ ImportsForbiddenModule(hs[h].last_tested))
      => hs[h].validation = "UnsafeCodeError"

\* C6: a child process is spawned only for a text that validate_code has
\* accepted; after a failed validation there is no child for that attempt.
C6_SpawnOnlyAfterValidation ==
  \A h \in Handlers :
    (hs[h].pc \in {"spawn", "wait"} \/ hs[h].child # "none") =>
      /\ hs[h].validation = "accepted"
      /\ validate_code(hs[h].last_tested) = "accepted"
\* a child is running for a validated text
C6_Witness ==
  \E h \in Handlers : hs[h].child = "running" /\ hs[h].validation = "accepted"

\* C7: a text rejected with UnsafeCodeError is a failed attempt of the loop:
\* execute hands the failure to test_and_fix, which repairs or gives up.
C7_UnsafeIsFailedAttempt ==
  \A h \in Handlers :
    hs[h].validation = "UnsafeCodeError" => (hs[h].pc = "check" /\ ~hs[h].success)

\* C8: no repair call is made for the failure "interpreter not found".
C8_MissingInterpreterNotRetried ==
  [][\A h \in Handlers :
       hs[h].error = "no_python" => hs'[h].repairs <= hs[h].repairs]_vars

\* C9: once the repair call has raised, test_and_fix has returned the failure
\* flag with the text it tested last; nothing is executed or repaired after
\* the call that raised, whatever budget remains.
C9_RepairFailureEndsLoop ==
  \A h \in Handlers :
    hs[h].repair_raised =>
      /\ hs[h].returned /\ ~hs[h].success
      /\ hs[h].pc \in {"persist", "finally"}
      /\ hs[h].current_code = hs[h].last_tested
      /\ hs[h].attempt < MAX_FIX_ATTEMPTS - 1
      /\ hs[h].executions = hs[h].attempt + 1
      /\ hs[h].repairs = hs[h].attempt + 1
\* the first repair call raised: two attempts are forgone
C9_Witness ==
  \E h \in Handlers : hs[h].repair_raised /\ hs[h].attempt = 0 /\ hs[h].pc = "finally"

\* C10: after a provider error inside fix_code the runner is not invoked again.
C10_ProviderErrorStopsLoop ==
  \A h \in Handlers : hs[h].provider_failed => hs[h].validation = "none"

\* C11: a child that runs into the timeout makes execute return failure with
\* the timeout diagnostic; whenever execute has returned no child is running
\* (the child of a timeout has been killed); and the step that waits for the
\* child always hands control back to test_and_fix.
C11_TimeoutKillsChild ==
  [][\A h \in Handlers :
       /\ hs'[h].child = "running" => hs'[h].pc = "wait"
       /\ (hs[h].pc = "wait" /\ hs'[h] # hs[h]) =>
            /\ hs'[h].pc = "check"
            /\ hs'[h].outcome.timeout =>
                 /\ ~hs'[h].success
                 /\ hs'[h].error = "timeout"
                 /\ hs'[h].child = "killed"]_vars
\* execute has returned after its child ran into the timeout
C11_Witness ==
  \E h \in Handlers : hs[h].pc = "check" /\ hs[h].outcome.timeout /\ hs[h].child = "killed"

\* C12: when execute returns for a child that exited with code 0 within the
\* timeout, the result is success with an empty diagnostic; and a success
\* result is only returned for such a child, with an empty diagnostic.
C12_ExitZeroIsSuccess ==
  \A h \in Handlers :
    hs[h].pc = "check" =>
      /\ (~hs[h].outcome.timeout /\ hs[h].outcome.returncode = 0) =>
           (hs[h].success /\ hs[h].error = "")
      /\ hs[h].success =>
           (~hs[h].outcome.timeout /\ hs[h].outcome.returncode = 0 /\ hs[h].error = "")

\* C13: when execute returns for a child that exited with a nonzero code, the
\* result is failure and the diagnostic is the child's standard error, or its
\* standard output when the standard error is empty.
C13_NonzeroExitDiagnostic ==
  \A h \in Handlers :
    (hs[h].pc = "check" /\ hs[h].outcome.returncode > 0) =>
      /\ ~hs[h].success
      /\ hs[h].error = IF hs[h].outcome.stderr # "" THEN hs[h].outcome.stderr
                       ELSE hs[h].outcome.stdout

\* C14: the loop stops at the first successful execution: a success is
\* returned at once, and when attempt k succeeded after k-1 failures there
\* were exactly k executions and k-1 repair calls, the text returned is the
\* one tested in attempt k, and nothing is executed or repaired afterwards.
C14_StopsAtFirstSuccess ==
  \A h \in Handlers :
    /\ hs[h].success => hs[h].pc \in {"check", "persist", "notify", "finally"}
    /\ (hs[h].success /\ hs[h].pc # "check") => hs[h].returned
    /\ (hs[h].returned /\ hs[h].success) =>
         /\ hs[h].attempt < MAX_FIX_ATTEMPTS
         /\ hs[h].executions = hs[h].attempt + 1
         /\ hs[h].repairs = hs[h].attempt
         /\ hs[h].current_code = hs[h].last_tested
\* the third attempt succeeded after two repaired failures
C14_Witness ==
  \E h \in Handlers :
    /\ hs[h].returned /\ hs[h].success /\ hs[h].pc = "notify"
    /\ hs[h].executions = MAX_FIX_ATTEMPTS /\ hs[h].repairs = MAX_FIX_ATTEMPTS - 1

\* C15: the repair capability is called at most MAX_FIX_ATTEMPTS - 1 times
\* and never after the attempt numbered MAX_FIX_ATTEMPTS - 1; a loop that
\* used up its attempts returns the failure flag and the text of its last,
\* failing, attempt.
C15_NoRepairAfterLastAttempt ==
  \A h \in Handlers :
    /\ hs[h].repairs <= MAX_FIX_ATTEMPTS - 1
    /\ hs[h].pc = "repair" => hs[h].attempt < MAX_FIX_ATTEMPTS - 1
    /\ (hs[h].returned /\ ~hs[h].success /\ ~hs[h].repair_raised) =>
         /\ hs[h].attempt = MAX_FIX_ATTEMPTS
         /\ hs[h].executions = MAX_FIX_ATTEMPTS
         /\ hs[h].repairs = MAX_FIX_ATTEMPTS - 1
         /\ hs[h].current_code = hs[h].last_tested
\* the last attempt has failed and the loop is about to return
C15_Witness ==
  \E h \in Handlers :
    /\ hs[h].pc = "loop" /\ hs[h].attempt = MAX_FIX_ATTEMPTS
    /\ hs[h].repairs = MAX_FIX_ATTEMPTS - 1 /\ ~hs[h].success

\* C16: whenever the Controller is done with an artifact whose Repair Loop
\* was entered, and no file write failed, the loop has reached Succeeded or
\* ExhaustedAttempts (test_and_fix has returned its result).
C16_LoopReachesTerminalState ==
  \A h \in Handlers :
    (hs[h].pc = "finally" /\ hs[h].executions > 0 /\ hs[h].raised # "OSError") =>
      hs[h].returned

\* C17: an event handled less than cooldown_period after the last accepted
\* event is ignored; an accepted event records its handler-entry time in
\* last_processed_time, at least cooldown_period after the entry time of the
\* event accepted before it; nothing else changes last_processed_time.
C17_CooldownBetweenAccepted ==
  [][/\ (Len(queue') < Len(queue) /\ now - last_processed_time < CooldownTicks) => hs' = hs
     /\ \A h \in Handlers :
          (hs[h].pc = "accept" /\ hs'[h].pc # "accept") =>
            /\ last_processed_time' = hs[h].current_time
            /\ hs[h].current_time - last_processed_time >= CooldownTicks
     /\ last_processed_time' # last_processed_time =>
          \E h \in Handlers : hs[h].pc = "accept" /\ hs'[h].pc = "validate_screenshot"]_vars
\* a second event has been accepted: it was emitted during an earlier job
C17_Witness ==
  \E h \in Handlers :
    /\ hs[h].pc = "validate_screenshot" /\ hs[h].event.during
    /\ last_processed_time >= StartTime + CooldownTicks

\* C18: `processing` is true exactly while an accepted event is inside the
\* Controller or on its way through on_created's finally clause; once
\* on_created has returned, on whatever path, the flag is false.
C18_ProcessingFlagTracksJob ==
  processing <=> \E h \in Handlers : InController(h) \/ hs[h].pc = "finally"
\* an accepted event left the Controller through an exception before anything
\* was written, on_created has returned and the flag is clear
C18_Witness ==
  /\ \A h \in Handlers : hs[h].pc = "idle"
  /\ ~processing
  /\ last_processed_time >= StartTime
  /\ disk = <<>>

\* C19 as stated: when the Controller is done, the notifier has been called
\* if and only if the Repair Loop ended in Succeeded.
C19_NotifiedIffSucceeded ==
  \A h \in Handlers :
    hs[h].pc = "finally" => (hs[h].notified <=> (hs[h].returned /\ hs[h].success))

\* C19 amended: the notifier is called only after the loop ended in Succeeded
\* and the final text was written without an exception; when the Controller
\* is done, it has been called if and only if both happened.
C19_NotifiedIffSucceededAndSaved ==
  \A h \in Handlers :
    /\ hs[h].notified =>
         (hs[h].returned /\ hs[h].success /\ hs[h].persisted /\ hs[h].raised = "")
    /\ hs[h].pc = "finally" =>
         (hs[h].notified <=> (hs[h].returned /\ hs[h].success /\ hs[h].persisted))
\* the notifier has been called for a script that succeeded after one repair
C19_Witness ==
  \E h \in Handlers : hs[h].pc = "finally" /\ hs[h].notified /\ hs[h].repairs = 1

\* C20: no exception raised for an artifact escapes process_screenshot, and
\* whenever no handler is running the Watcher is idle with the flag clear.
C20_FailuresStayInController ==
  /\ \A h \in Handlers : ~hs[h].escaped
  /\ (\A h \in Handlers : hs[h].pc = "idle") => ~processing
\* after an artifact that failed (its rejected text is still on disk under
\* another name) a later event has been processed to success
C20_Witness ==
  \E h \in Handlers :
    /\ hs[h].pc = "notify" /\ hs[h].success
    /\ \E path \in DOMAIN disk : path # hs[h].code_path /\ disk[path] = S_nested

\* C21: the screenshot is validated before anything else: while it is being
\* validated, and after validation failed with FileHandlingError, the
\* generation capability has not been invoked, no output path exists and
\* nothing was written to it, the runner has not run and the notifier has not
\* been called.
C21_ValidationComesFirst ==
  \A h \in Handlers :
    (hs[h].pc = "validate_screenshot" \/ hs[h].raised = "FileHandlingError") =>
      /\ ~hs[h].generated
      /\ hs[h].code_path = NoPath
      /\ hs[h].executions = 0
      /\ ~hs[h].persisted
      /\ ~hs[h].notified
\* the screenshot of an accepted event failed validation
C21_Witness ==
  \E h \in Handlers : hs[h].pc = "finally" /\ hs[h].raised = "FileHandlingError"

\* C22: sanitizing the sanitized title of a generation response yields the
\* same file stem, also for titles that sanitize to the default.
C22_SanitizeIdempotent ==
  \A h \in Handlers :
    sanitize_filename(sanitize_filename(hs[h].title)) = sanitize_filename(hs[h].title)
\* a title made of removed characters only was sanitized to the default
C22_Witness ==
  \E h \in Handlers :
    /\ hs[h].pc = "loop" /\ hs[h].title = <<"/", ".", "/">>
    /\ hs[h].code_path.name = untitled \o <<".", "p", "y">>

\* C23: every path get_code_path has returned, and every file written, lies
\* inside the output directory; a path outside is answered with
\* FileHandlingError and never returned.
C23_PathInsideOutputDir ==
  /\ \A h \in Handlers :
       hs[h].code_path # NoPath =>
         /\ ~hs[h].code_path.raises
         /\ IsRelativeTo(Append(hs[h].code_path.dir, hs[h].code_path.name), output_dir)
  /\ \A path \in DOMAIN disk : IsRelativeTo(Append(path.dir, path.name), output_dir)
\* a title that climbs out of the directory got a path inside it
C23_Witness ==
  \E h \in Handlers :
    /\ hs[h].pc = "loop" /\ hs[h].title = <<".", ".", "/">>
    /\ hs[h].code_path.dir = output_dir

\* the title has no character that sanitize_filename keeps
SanitizesToEmpty(title) == CollapseSpaces(Strip(KeepOnly(title))) = <<>>

\* C24: when sanitizing the title yields the empty string, the stem of the
\* output file is the stem of the screenshot's file name.
C24_EmptyTitleFallsBackToStem ==
  \A h \in Handlers :
    (hs[h].pc = "loop" /\ hs[h].attempt = 0 /\ SanitizesToEmpty(hs[h].title)) =>
      hs[h].code_path.name = hs[h].event.src_path.stem \o <<".", "p", "y">>

\* C25: the script file of an artifact that reached Succeeded is never
\* changed by the processing of a later artifact.
C25_SolvedFileNeverOverwritten ==
  [][\A path \in solved : disk'[path] = disk[path]]_vars

\* C26 as stated: once two consecutive polls have observed the same nonzero
\* size the wait has ended, so no wait is still polling with an unchanged
\* size on its count.
C26_TwoEqualPollsEndWait ==
  \A h \in Handlers : hs[h].pc = "poll" => hs[h].stable_count = 0

\* C26 amended: the wait ends for stability exactly when a poll finds the
\* size unchanged and nonzero for the second time in a row (three polls with
\* the same nonzero size, polls that raise OSError aside); only a poll equal
\* to the one before it and nonzero adds to the count, and a poll with a
\* different size sets the count back to zero.
C26_ThreeEqualPollsEndWait ==
  [][\A h \in Handlers :
       /\ hs'[h].pc = "poll" => hs'[h].stable_count < 2
       /\ (hs[h].pc = "poll" /\ hs'[h].pc = "accept" /\ hs[h].polls < MaxPolls) =>
            /\ hs[h].stable_count = 1 /\ hs'[h].stable_count = 2
            /\ hs'[h].last_size = hs[h].last_size /\ hs[h].last_size > 0
       /\ (hs[h].pc = "poll" /\ hs'[h].stable_count > hs[h].stable_count) =>
            /\ hs'[h].stable_count = hs[h].stable_count + 1
            /\ hs'[h].last_size = hs[h].last_size /\ hs[h].last_size > 0
       /\ (hs[h].pc = "poll" /\ hs'[h].last_size # hs[h].last_size) =>
            hs'[h].stable_count = 0]_vars
\* the third poll in a row with the same nonzero size ended the wait
C26_Witness ==
  \E h \in Handlers : hs[h].pc = "accept" /\ hs[h].stable_count = 2 /\ hs[h].polls = 2

\* C27: every iteration of the stability wait either ends it or uses up one
\* of the MaxPolls polls; after MaxPolls polls the wait ends whatever was
\* observed, and an event whose wait has ended, stable or not, is accepted:
\* the flag is set and the Controller is entered.
C27_WaitIsBounded ==
  [][\A h \in Handlers :
       /\ hs'[h].polls <= MaxPolls
       /\ (hs[h].pc = "poll" /\ hs'[h] # hs[h]) =>
            \/ hs'[h].pc = "accept"
            \/ hs'[h].pc = "poll" /\ hs'[h].polls = hs[h].polls + 1
       /\ (hs[h].pc = "poll" /\ hs[h].polls = MaxPolls /\ hs'[h] # hs[h]) =>
            hs'[h].pc = "accept"
       /\ (hs[h].pc = "accept" /\ hs'[h] # hs[h]) =>
            /\ hs'[h].pc = "validate_screenshot"
            /\ hs'[h].event = hs[h].event
            /\ processing']_vars
\* every poll raised OSError and the event is accepted all the same
C27_Witness ==
  \E h \in Handlers :
    hs[h].pc = "accept" /\ hs[h].polls = MaxPolls /\ hs[h].last_size = -1

\* the handler returns at once for this event
Ignored(event) ==
  event.is_directory \/ ~HasAllowedExtension(event.src_path) \/ GateRejects(now)

\* C28: the dispatch of an event that is ignored (a directory, a file without
\* an allowed extension, an event the gate rejects) changes neither
\* `processing` nor last_processed_time, starts no handler work and writes
\* nothing.
C28_IgnoredEventChangesNothing ==
  [][(Len(queue') < Len(queue) /\ Ignored(Head(queue))) =>
       /\ processing' = processing
       /\ last_processed_time' = last_processed_time
       /\ hs' = hs
       /\ disk' = disk]_vars
\* every event of the run has been dispatched and ignored: the Watcher's
\* state is the one it started with
C28_Witness ==
  /\ budget = 0 /\ queue = <<>>
  /\ \A h \in Handlers : hs[h].pc = "idle"
  /\ last_processed_time = 0 /\ ~processing

\* C29: a text that does not parse fails validation with CodeValidationError
\* and no child process; execute returns it as a failure with a validation
\* diagnostic, and test_and_fix then asks for a repair when attempts remain
\* and goes to its exhausted end when none does.
C29_SyntaxErrorIsFailedAttempt ==
  [][\A h \in Handlers :
       /\ (hs'[h].validation \notin {"none", "OSError"} /\ ~hs'[h].last_tested.parses) =>
            hs'[h].validation = "CodeValidationError"
       /\ hs'[h].validation = "CodeValidationError" =>
            /\ hs'[h].pc = "check" /\ ~hs'[h].success
            /\ hs'[h].error = "validation_error"
            /\ hs'[h].child = "none"
       /\ (hs[h].validation = "CodeValidationError" /\ hs'[h] # hs[h]) =>
            IF hs[h].attempt < MAX_FIX_ATTEMPTS - 1
            THEN hs'[h].pc = "repair" /\ hs'[h].attempt = hs[h].attempt
            ELSE hs'[h].pc = "loop" /\ hs'[h].attempt = MAX_FIX_ATTEMPTS]_vars
\* a repair is being requested for a text that did not parse
C29_Witness ==
  \E h \in Handlers :
    /\ hs[h].pc = "repair" /\ hs[h].error = "validation_error"
    /\ ~hs[h].last_tested.parses /\ hs[h].executions = 1

\* C30: also when handlers interleave, no two of them are inside
\* process_screenshot at the same time.
C30_FlagAloneExcludesOverlap ==
  \A g, h \in Handlers : (InController(g) /\ InController(h)) => g = h

\* C31: from the moment the Controller has computed the output path until
\* its handler returns, the path stays the same, whatever title a repair
\* reply carries; and a step that creates or changes a file does so at the
\* output path of a running handler, so one artifact writes one file.
C31_OutputPathIsFixed ==
  [][/\ \A h \in Handlers :
          (hs[h].code_path # NoPath /\ hs'[h].pc # "idle") =>
            hs'[h].code_path = hs[h].code_path
     /\ \A path \in DOMAIN disk' :
          (path \notin DOMAIN disk \/ disk'[path] # disk[path]) =>
            \E h \in Handlers : hs[h].code_path = path /\ hs'[h].code_path = path]_vars
\* a repair reply carried a title other than the one the file is named after
C31_Witness ==
  \E h \in Handlers :
    /\ hs[h].pc = "loop" /\ hs[h].repairs = 1
    /\ hs[h].reply_title = <<"A", " ", "B">>
    /\ hs[h].code_path = get_code_path(Untitled, hs[h].event.src_path)

\* C32: once validate_code has rejected an attempt's text with
\* UnsafeCodeError, the Controller is on its way out: the rejected text is
\* the content of the output file, no repair call was made for it, there is
\* no final persist and no notification, and the handler's return leaves the
\* file as it is.
C32_UnsafeTextStaysOnDisk ==
  [][\A h \in Handlers :
       /\ hs'[h].unsafe_raised =>
            /\ hs'[h].pc = "finally" /\ hs'[h].raised = "UnsafeCodeError"
            /\ validate_code(hs'[h].last_tested) = "UnsafeCodeError"
            /\ hs'[h].code_path \in DOMAIN disk'
            /\ disk'[hs'[h].code_path] = hs'[h].last_tested
            /\ hs'[h].repairs = hs'[h].attempt
            /\ hs'[h].executions = hs'[h].attempt + 1
            /\ ~hs'[h].returned /\ ~hs'[h].persisted /\ ~hs'[h].notified
       /\ (hs[h].unsafe_raised /\ hs'[h] # hs[h]) =>
            /\ hs'[h].pc = "idle"
            /\ disk' = disk]_vars
\* the text of a repair reply was rejected and is what the file holds
C32_Witness ==
  \E h \in Handlers :
    /\ hs[h].unsafe_raised /\ hs[h].pc = "finally" /\ hs[h].repairs = 1
    /\ disk[hs[h].code_path] = S_nested

====
